---- MODULE Spec2Model ----
(***************************************************************************)
(* compose-stack: the reconciliation core of cs/service.py.                *)
(*                                                                         *)
(* Service objects live in a heap (a sequence of records, the index is the *)
(* object's identity) because Stack.add stores REFERENCES: the object the  *)
(* caller passes in is the object the Stack holds and later mutates.       *)
(* Python strings are TLA+ strings; the Python values None, True, False,   *)
(* {} and [] that a string-typed slot can also hold are written as the     *)
(* strings "None", "True", "False", "{}" and "[]" (no backend name, id or  *)
(* state of the model spells one of them).                                 *)
(***************************************************************************)
EXTENDS Integers, Sequences, FiniteSets, TLC

VARIABLES
    heap,       \* Seq of Service records: every Service object constructed so far
    services,   \* Stack.services: Seq of heap indices, in insertion order
    last,       \* the last operation: its arguments, its outcome, the state before it
    hist,       \* the operations of a reconciliation run, oldest first
    cfg,        \* the Config that cli.main loaded and hands to the command
    run_live    \* Process.run_live: the subprocess, its pipes and the polling loop

vars == <<heap, services, last, hist, cfg, run_live>>

----------------------------------------------------------------------------
(* Bounds of the model *)

\* Service objects a caller constructs by hand in Spec
MaxObj == 3
\* population calls (load_config, load_dockerd, load_systemd) of one run in SpecPs
MaxLoads == 3
\* ids one `docker ps` lists, units one `systemctl list-units` lists
MaxPs == 2
MaxUnits == 2

----------------------------------------------------------------------------
(* Python values and string methods *)

None == "None"
PyTrue == "True"
PyFalse == "False"
PyEmptyDict == "{}"
PyEmptyList == "[]"

\* bool(v) for a value held in a string-typed slot
Truthy(v) == v \notin {None, "", PyFalse, PyEmptyDict, PyEmptyList}

\* a or b, a and b: Python returns one of the operands, not a bool
PyOr(a, b) == IF Truthy(a) THEN a ELSE b
PyAnd(a, b) == IF Truthy(a) THEN b ELSE a

\* the two shapes netport / netmap can take
PyList(s) == [py |-> "list", v |-> s]
PyStr(s) == [py |-> "str", v |-> s]

Min(a, b) == IF a < b THEN a ELSE b

\* a local name: F applied to the value of e, which is evaluated once
With(e, F(_)) == F(e)

\* s[i:] and s[:n] (0-based slices of Python, clamped like Python clamps them)
StrFrom(s, i) == SubSeq(s, Min(i, Len(s)) + 1, Len(s))
StrTake(s, n) == SubSeq(s, 1, Min(n, Len(s)))

StartsWith(s, p) == Len(p) <= Len(s) /\ SubSeq(s, 1, Len(p)) = p

\* s.find(sub) + 1: the 1-based position of the first occurrence, 0 if none
RECURSIVE StrFindFrom(_, _, _)
StrFindFrom(s, sub, i) ==
    IF i + Len(sub) - 1 > Len(s) THEN 0
    ELSE IF SubSeq(s, i, i + Len(sub) - 1) = sub THEN i
    ELSE StrFindFrom(s, sub, i + 1)
StrFind(s, sub) == StrFindFrom(s, sub, 1)

\* s.replace(old, new): every non-overlapping occurrence, left to right
RECURSIVE StrReplace(_, _, _)
StrReplace(s, old, new) ==
    IF Len(old) = 0 \/ Len(s) < Len(old) THEN s
    ELSE IF StartsWith(s, old)
         THEN new \o StrReplace(StrFrom(s, Len(old)), old, new)
         ELSE StrTake(s, 1) \o StrReplace(StrFrom(s, 1), old, new)

\* s.split(sep, 1)
Split1(s, sep) ==
    With(StrFind(s, sep), LAMBDA i :
        IF i = 0 THEN <<s>>
        ELSE <<SubSeq(s, 1, i - 1), StrFrom(s, i + Len(sep) - 1)>>)

\* s.split(sep)
RECURSIVE SplitAll(_, _)
SplitAll(s, sep) ==
    With(Split1(s, sep), LAMBDA p :
        IF Len(p) = 1 THEN p ELSE <<p[1]>> \o SplitAll(p[2], sep))

\* s.strip(ch) for a one-character ch
RECURSIVE LStrip(_, _)
LStrip(s, ch) == IF StartsWith(s, ch) THEN LStrip(StrFrom(s, 1), ch) ELSE s
RECURSIVE RStrip(_, _)
RStrip(s, ch) ==
    IF Len(s) > 0 /\ SubSeq(s, Len(s), Len(s)) = ch
    THEN RStrip(SubSeq(s, 1, Len(s) - 1), ch) ELSE s
Strip(s, ch) == RStrip(LStrip(s, ch), ch)

----------------------------------------------------------------------------
(* Service *)

\* Service.initialize: the slots and their defaults
Initialize ==
    [wanted |-> PyFalse, type |-> None, stack |-> None, name |-> None,
     pid |-> None, pid6 |-> None,
     state |-> None, created |-> None, started |-> None, finished |-> None,
     changed |-> None,
     mem |-> None, cpu |-> None, blockio |-> None, netio |-> None,
     netport |-> PyList(<<>>), netmap |-> PyList(<<>>), netmode |-> None,
     mounts |-> None,
     image |-> None, imageid |-> None, imageid6 |-> None, imagever |-> None,
     imagedate |-> None]

Fields == DOMAIN Initialize

\* the keyword arguments Service.__init__ copies
InitKeys == {"wanted", "type", "stack", "name", "image", "netport", "netmap"}

\* "value is None or not value" for a keyword argument
KwFalsy(key, value) ==
    IF key \in {"netport", "netmap"} THEN Len(value.v) = 0 ELSE ~Truthy(value)

\* Service.__init__(**kwargs): kwargs is a record of the keywords given
ServiceInit(kwargs) ==
    [f \in Fields |->
        IF f \in DOMAIN kwargs /\ f \in InitKeys /\ ~KwFalsy(f, kwargs[f])
        THEN kwargs[f] ELSE Initialize[f]]

\* a faulty __eq__ that never looks at pid
ServiceEqNoPid(a, b) == a.stack = b.stack /\ a.name = b.name
\* Service.__eq__ between two Services
ServiceEq(a, b) ==
    IF Truthy(a.pid) /\ Truthy(b.pid)
    THEN a.pid = b.pid
    ELSE a.stack = b.stack /\ a.name = b.name

----------------------------------------------------------------------------
(* sh.Process: what the core reads of a finished subprocess *)

\* Process.lines: stdout.strip(os.linesep).split(os.linesep)
ProcessLines(stdout) == SplitAll(Strip(stdout, "\n"), "\n")

\* dict.get(key, default) on a mapping written as a TLA+ function
Get(d, key, default) == IF key \in DOMAIN d THEN d[key] ELSE default

Digits == {"0", "1", "2", "3", "4", "5", "6", "7", "8", "9"}
CharAt(s, i) == SubSeq(s, i, i)
IsDigits(s) == Len(s) > 0 /\ \A i \in 1..Len(s) : CharAt(s, i) \in Digits
DigitVal(c) ==
    CASE c = "0" -> 0 [] c = "1" -> 1 [] c = "2" -> 2 [] c = "3" -> 3
      [] c = "4" -> 4 [] c = "5" -> 5 [] c = "6" -> 6 [] c = "7" -> 7
      [] c = "8" -> 8 [] c = "9" -> 9
RECURSIVE StrToInt(_)
StrToInt(s) ==
    IF Len(s) = 0 THEN 0
    ELSE 10 * StrToInt(SubSeq(s, 1, Len(s) - 1)) + DigitVal(CharAt(s, Len(s)))

\* datetime.strptime(s, "%Y-%m-%d %H:%M:%S") on a 19-character string:
\* <<year, month, day, hour, minute, second>>, or <<>> where it raises
\* ValueError (wrong shape, or a field no datetime can hold: year 0, month 0)
DaysIn(y, m) ==
    IF m \in {4, 6, 9, 11} THEN 30
    ELSE IF m # 2 THEN 31
    ELSE IF (y % 4 = 0 /\ y % 100 # 0) \/ y % 400 = 0 THEN 29 ELSE 28
Strptime(s) ==
    IF Len(s) # 19 THEN <<>>
    ELSE IF ~(/\ CharAt(s, 5) = "-" /\ CharAt(s, 8) = "-" /\ CharAt(s, 11) = " "
              /\ CharAt(s, 14) = ":" /\ CharAt(s, 17) = ":"
              /\ IsDigits(SubSeq(s, 1, 4)) /\ IsDigits(SubSeq(s, 6, 7))
              /\ IsDigits(SubSeq(s, 9, 10)) /\ IsDigits(SubSeq(s, 12, 13))
              /\ IsDigits(SubSeq(s, 15, 16)) /\ IsDigits(SubSeq(s, 18, 19)))
    THEN <<>>
    ELSE LET y == StrToInt(SubSeq(s, 1, 4))
             m == StrToInt(SubSeq(s, 6, 7))
             d == StrToInt(SubSeq(s, 9, 10))
             hh == StrToInt(SubSeq(s, 12, 13))
             mm == StrToInt(SubSeq(s, 15, 16))
             ss == StrToInt(SubSeq(s, 18, 19))
         IN  IF /\ y >= 1 /\ m \in 1..12 /\ d >= 1 /\ d <= DaysIn(y, m)
                /\ hh <= 23 /\ mm <= 59 /\ ss <= 61
             THEN <<y, m, d, hh, mm, ss>> ELSE <<>>

\* a > b on two datetimes
RECURSIVE TupleGreater(_, _)
TupleGreater(a, b) ==
    IF Len(a) = 0 THEN FALSE
    ELSE IF Head(a) # Head(b) THEN Head(a) > Head(b)
    ELSE TupleGreater(Tail(a), Tail(b))

----------------------------------------------------------------------------
(* Service.systemctl_show *)

\* the for loop filling u: the dict, or "ValueError" at the first line
\* without "=" (key, value = var.split("=", 1) cannot unpack one element)
RECURSIVE ShowDict(_, _)
ShowDict(lines, u) ==
    IF Len(lines) = 0 THEN [exc |-> None, u |-> u]
    ELSE With(Split1(Head(lines), "="), LAMBDA kv :
             IF Len(kv) < 2 THEN [exc |-> "ValueError", u |-> u]
             ELSE ShowDict(Tail(lines), (kv[1] :> kv[2]) @@ u))

EmptyDict == [k \in {} |-> None]

\* a faulty state(u) that reads SubState only
SystemdStateSubFirst(u) ==
    LET sub == Get(u, "SubState", None)
    IN  IF ~Truthy(sub) THEN None
        ELSE IF sub = "exited" THEN "finished" ELSE sub
\* the local function state(u)
SystemdState(u) ==
    LET load == Get(u, "LoadState", None)
        freeze == Get(u, "FreezerState", None)
        active == Get(u, "ActiveState", None)
        sub == Get(u, "SubState", None)
    IN  IF ~Truthy(load) THEN None
        ELSE IF load # "loaded" THEN load
        ELSE IF ~Truthy(freeze) THEN None
        ELSE IF freeze # "running" THEN freeze
        ELSE IF ~Truthy(active) THEN None
        ELSE IF active \in {"inactive", "failed"} THEN active
        ELSE IF ~Truthy(sub) THEN None
        ELSE IF sub = "exited" THEN "finished"
        ELSE sub

\* the first local fmt(t): strptime(t, "%a %Y-%m-%d %H:%M:%S %Z") then
\* strftime("%Y-%m-%d %H:%M:%S"); None where strptime raises.  %Z accepts
\* UTC, GMT and the names of the local zone: the model's host runs in UTC.
Weekdays == {"Mon", "Tue", "Wed", "Thu", "Fri", "Sat", "Sun"}
ZoneNames == {"UTC", "GMT"}
SystemdTime(t) ==
    IF ~Truthy(t) THEN None
    ELSE IF Len(t) < 25 THEN None
    ELSE IF /\ SubSeq(t, 1, 3) \in Weekdays
            /\ CharAt(t, 4) = " "
            /\ Strptime(SubSeq(t, 5, 23)) # <<>>
            /\ CharAt(t, 24) = " "
            /\ StrFrom(t, 24) \in ZoneNames
         THEN SubSeq(t, 5, 23)
         ELSE None

\* the second local fmt(unit): unit is the MemoryCurrent string (or None), so
\* unit["MEM"] raises TypeError, the bare except swallows it and mem stays None
SystemdMem(unit) == None

\* the third local fmt(nanoseconds)
SystemdCpu(nanoseconds) ==
    IF ~Truthy(nanoseconds) THEN None
    ELSE IF ~IsDigits(nanoseconds) THEN None
    ELSE LET n == nanoseconds
             \* total_seconds = int(n) / 1e9, kept as whole seconds and tenths
             whole == IF Len(n) > 9 THEN StrToInt(SubSeq(n, 1, Len(n) - 9)) ELSE 0
             frac == IF Len(n) > 9 THEN StrFrom(n, Len(n) - 9) ELSE n
             hours == whole \div 3600
             minutes == (whole % 3600) \div 60
             secs == whole % 60
             \* round(x, 1) on the first two decimals that matter
             pad == IF Len(frac) >= 9 THEN frac
                    ELSE SubSeq("000000000", 1, 9 - Len(frac)) \o frac
             hundredths == StrToInt(SubSeq(pad, 1, 2))
             tenths0 == hundredths \div 10
             up == (hundredths % 10 > 5)
                   \/ (hundredths % 10 = 5 /\ StrToInt(SubSeq(pad, 3, 9)) > 0)
             tenths == secs * 10 + tenths0 + (IF up THEN 1 ELSE 0)
             seconds == ToString(tenths \div 10) \o "." \o ToString(tenths % 10)
             h == IF hours > 0 THEN <<ToString(hours) \o "h">> ELSE <<>>
             m == IF minutes > 0 THEN <<ToString(minutes) \o "m">> ELSE <<>>
             hm == h \o m
             s == IF tenths > 0 \/ Len(hm) = 0 THEN <<seconds \o "s">> ELSE <<>>
             result == hm \o s
         IN  IF Len(result) = 1 THEN result[1]
             ELSE IF Len(result) = 2 THEN result[1] \o " " \o result[2]
             ELSE result[1] \o " " \o result[2] \o " " \o result[3]

\* systemctl_show(name) on the stdout of `systemctl show <name>`:
\* [exc, svc], svc being the object's slots when the method returns or raises
SystemctlShow(stdout) ==
    With(ShowDict(ProcessLines(stdout), EmptyDict), LAMBDA p :
        LET u == p.u
            id == Get(u, "Id", None)
        IN  IF p.exc # None THEN [exc |-> p.exc, svc |-> Initialize]
            ELSE [exc |-> None,
                  svc |-> [Initialize EXCEPT
                      !.wanted = PyFalse,
                      !.type = "systemd",
                      !.stack = "systemd",
                      !.name = IF Truthy(id) THEN StrReplace(id, ".service", "") ELSE id,
                      !.pid = Get(u, "ExecMainPID", None),
                      !.pid6 = None,
                      !.state = SystemdState(u),
                      !.started = SystemdTime(Get(u, "ExecMainStartTimestamp", None)),
                      !.changed = SystemdTime(Get(u, "StateChangeTimestamp", None)),
                      !.mem = SystemdMem(Get(u, "MemoryCurrent", None)),
                      !.cpu = SystemdCpu(Get(u, "CPUUsageNSec", None))]])

----------------------------------------------------------------------------
(* Service.docker_inspect *)

\* Process.json of `docker inspect <cid>`: the parsed stdout.  A JSON object
\* is a function from the keys it has, JSON null is None, and stdout that is
\* no JSON at all is NotJson (json.loads raises JSONDecodeError).
NotJson == [json |-> "invalid", v |-> <<>>]
JsonArray(elems) == [json |-> "array", v |-> elems]

NoTime == "0000-00-00 00:00:00"

\* the local fmt(dt)
DockerTime(dt) ==
    IF dt = None THEN "" ELSE StrReplace(StrTake(dt, 19), "T", " ")

\* the local newer(this, that): "raise" where either strptime raises
Newer(this, that) ==
    With(Strptime(this), LAMBDA a : With(Strptime(that), LAMBDA b :
        IF a = <<>> \/ b = <<>> THEN "raise"
        ELSE IF TupleGreater(a, b) THEN "yes" ELSE "no"))

\* a faulty ports loop that appends the host port of every container port
RECURSIVE PortLoopAlwaysAppend(_, _, _)
PortLoopAlwaysAppend(ports, netport, netmap) ==
    IF Len(ports) = 0 THEN [netport |-> netport, netmap |-> netmap]
    ELSE LET cp == Head(ports)[1]
             props == Head(ports)[2]
             hp == IF props = None \/ Len(props) = 0 THEN ""
                   ELSE Get(props[1], "HostPort", "")
         IN  PortLoopAlwaysAppend(Tail(ports), Append(netport, hp),
                                  Append(netmap, hp \o "(" \o cp \o ")"))
\* the loop over NetworkSettings.Ports.items(): ports is the sequence of
\* <<container port, bindings>> in the order of the JSON object
RECURSIVE PortLoop(_, _, _)
PortLoop(ports, netport, netmap) ==
    IF Len(ports) = 0 THEN [netport |-> netport, netmap |-> netmap]
    ELSE LET cp == Head(ports)[1]
             props == Head(ports)[2]
             hp == IF props = None \/ Len(props) = 0 THEN ""
                   ELSE Get(props[1], "HostPort", "")
             m == hp \o "(" \o cp \o ")"
         IN  PortLoop(Tail(ports),
                      IF hp # "" THEN Append(netport, hp) ELSE netport,
                      Append(netmap, m))

\* the local mnt(mounts)
RECURSIVE CountType(_, _)
CountType(mounts, t) ==
    IF Len(mounts) = 0 THEN 0
    ELSE (IF Get(Head(mounts), "Type", None) = t THEN 1 ELSE 0)
         + CountType(Tail(mounts), t)
DockerMounts(mounts) ==
    LET nv == CountType(mounts, "volume")
        nb == CountType(mounts, "bind")
        sv == IF nv # 0 THEN ToString(nv) \o "V " ELSE ""
        sb == IF nb # 0 THEN ToString(nb) \o "B" ELSE ""
        n == sv \o sb
    IN  IF n # "" THEN n ELSE None

\* if newer(t, self.changed): self.changed = t
\* [exc, svc]: ValueError where a strptime of newer raises
TakeNewer(s, t) ==
    With(Newer(t, s.changed), LAMBDA n :
        IF n = "raise" THEN [exc |-> "ValueError", svc |-> s]
        ELSE [exc |-> None, svc |-> IF n = "yes" THEN [s EXCEPT !.changed = t] ELSE s])

\* the two newer() tests on an object whose created, started and finished
\* are set
InspectChanged(s) ==
    With(TakeNewer([s EXCEPT !.changed = s.created], s.started), LAMBDA r :
        IF r.exc # None THEN r ELSE TakeNewer(r.svc, r.svc.finished))

\* the resources and image slots, set when the status section raised nothing
InspectResources(c, labels, r) ==
    LET ports == PortLoop(Get(Get(c, "NetworkSettings", EmptyDict), "Ports", <<>>),
                          <<>>, <<>>)
        imageid == Get(c, "Image", None)
    IN  IF r.exc # None THEN r
        ELSE [exc |-> None,
              svc |-> [r.svc EXCEPT
                  !.netport = PyList(ports.netport),
                  !.netmap = PyList(ports.netmap),
                  !.netmode = Get(Get(c, "HostConfig", EmptyDict), "NetworkMode", ""),
                  !.mounts = DockerMounts(Get(c, "Mounts", <<>>)),
                  !.image = Get(Get(c, "Config", EmptyDict), "Image", None),
                  !.imageid = imageid,
                  !.imageid6 = StrTake(StrReplace(imageid, "sha256:", ""), 6),
                  !.imagever = Get(labels, "org.opencontainers.image.version", ""),
                  !.imagedate = Get(labels, "org.opencontainers.image.created", "")]]

\* docker_inspect(cid) on the parsed stdout of `docker inspect <cid>`:
\* [exc, svc], svc being the object's slots when the method returns or raises
DockerInspect(cid, out) ==
    IF out.json # "array" THEN [exc |-> "JSONDecodeError", svc |-> Initialize]
    ELSE IF Len(out.v) = 0 THEN [exc |-> "IndexError", svc |-> Initialize]
    ELSE
    LET c == out.v[1]
        labels == Get(Get(c, "Config", EmptyDict), "Labels", EmptyDict)
        state == Get(c, "State", EmptyDict)
        project == Get(labels, "com.docker.compose.project", "")
        type == IF ~Truthy(project) THEN "dockerd" ELSE "compose"
        stack == IF ~Truthy(project) THEN type ELSE project
        service == Get(labels, "com.docker.compose.service", None)
        rawname == Get(c, "Name", None)
        pid == Get(c, "Id", cid)
        s1 == [Initialize EXCEPT !.type = type, !.stack = stack, !.name = service]
    IN  IF ~Truthy(Get(c, "Image", PyFalse)) THEN [exc |-> "Exception", svc |-> Initialize]
        ELSE IF service = None /\ rawname = None THEN [exc |-> "AttributeError", svc |-> s1]
        ELSE InspectResources(c, labels, InspectChanged(
                [s1 EXCEPT
                  !.name = IF service = None THEN Strip(rawname, "/") ELSE service,
                  !.pid = pid,
                  !.pid6 = StrTake(pid, 6),
                  !.state = Get(state, "Status", None),
                  !.created = DockerTime(Get(c, "Created", NoTime)),
                  !.started = DockerTime(Get(state, "StartedAt", NoTime)),
                  !.finished = DockerTime(Get(state, "FinishedAt", NoTime))]))

----------------------------------------------------------------------------
(* Stack *)

\* what a caller can pass to Stack.add: a Service object or something else
Ref(o) == [cls |-> "Service", ref |-> o]
NotAService == [cls |-> "str", ref |-> 0]

\* Stack.__contains__
StackContains(h, svcs, o) ==
    \E i \in 1..Len(svcs) : ServiceEq(h[o], h[svcs[i]])

\* the i at which the for loop of Stack.add stops
FirstEq(h, svcs, o) ==
    CHOOSE i \in 1..Len(svcs) :
        /\ ServiceEq(h[o], h[svcs[i]])
        /\ \A j \in 1..(i - 1) : ~ServiceEq(h[o], h[svcs[j]])

\* faulty variants of Stack.add: one that appends whatever the Stack holds,
\* one that leaves wanted alone, one that replaces whatever `replace` says
StackAddAlwaysAppend(h, svcs, item, replace) ==
    IF item.cls # "Service" THEN [heap |-> h, services |-> svcs, ret |-> PyFalse]
    ELSE [heap |-> h, services |-> Append(svcs, item.ref), ret |-> PyTrue]
StackAddNoOr(h, svcs, item, replace) ==
    IF item.cls # "Service" THEN [heap |-> h, services |-> svcs, ret |-> PyFalse]
    ELSE IF ~StackContains(h, svcs, item.ref)
    THEN [heap |-> h, services |-> Append(svcs, item.ref), ret |-> PyTrue]
    ELSE LET i == FirstEq(h, svcs, item.ref)
             s2 == IF replace THEN [svcs EXCEPT ![i] = item.ref] ELSE svcs
         IN  [heap |-> h, services |-> s2, ret |-> PyTrue]
StackAddIgnoreReplace(h, svcs, item, replace) ==
    IF item.cls # "Service" THEN [heap |-> h, services |-> svcs, ret |-> PyFalse]
    ELSE IF ~StackContains(h, svcs, item.ref)
    THEN [heap |-> h, services |-> Append(svcs, item.ref), ret |-> PyTrue]
    ELSE LET i == FirstEq(h, svcs, item.ref)
             wanted == PyOr(h[item.ref].wanted, h[svcs[i]].wanted)
             s2 == [svcs EXCEPT ![i] = item.ref]
         IN  [heap |-> [h EXCEPT ![s2[i]].wanted = wanted],
              services |-> s2, ret |-> PyTrue]
\* a faulty add whose merged entry takes the wanted flag of the item alone
StackAddItemWanted(h, svcs, item, replace) ==
    IF item.cls # "Service" THEN [heap |-> h, services |-> svcs, ret |-> PyFalse]
    ELSE IF ~StackContains(h, svcs, item.ref)
    THEN [heap |-> h, services |-> Append(svcs, item.ref), ret |-> PyTrue]
    ELSE LET i == FirstEq(h, svcs, item.ref)
             s2 == IF replace THEN [svcs EXCEPT ![i] = item.ref] ELSE svcs
         IN  [heap |-> [h EXCEPT ![s2[i]].wanted = h[item.ref].wanted],
              services |-> s2, ret |-> PyTrue]
\* Stack.add(item, replace): the heap, the Stack and the return value after it
StackAdd(h, svcs, item, replace) ==
    IF item.cls # "Service" THEN [heap |-> h, services |-> svcs, ret |-> PyFalse]
    ELSE IF ~StackContains(h, svcs, item.ref)
    THEN [heap |-> h, services |-> Append(svcs, item.ref), ret |-> PyTrue]
    ELSE LET i == FirstEq(h, svcs, item.ref)
             wanted == PyOr(h[item.ref].wanted, h[svcs[i]].wanted)
             s2 == IF replace THEN [svcs EXCEPT ![i] = item.ref] ELSE svcs
         IN  [heap |-> [h EXCEPT ![s2[i]].wanted = wanted],
              services |-> s2, ret |-> PyTrue]

----------------------------------------------------------------------------
(* The backends: what systemctl and docker print *)

\* a unit as systemd knows it; a property that is None is not printed
Unit(id, pid, load, active, sub) ==
    [Id |-> id \o ".service", ExecMainPID |-> pid, LoadState |-> load,
     FreezerState |-> "running", ActiveState |-> active, SubState |-> sub,
     ExecMainStartTimestamp |->
        IF sub = "running" THEN "Mon 2024-01-01 10:00:00 UTC" ELSE "",
     StateChangeTimestamp |-> "Tue 2024-01-02 11:30:00 UTC",
     MemoryCurrent |-> "[not set]", CPUUsageNSec |-> "[not set]",
     StatusText |-> None]

ShowKeys ==
    <<"Id", "ExecMainPID", "LoadState", "FreezerState", "ActiveState", "SubState",
      "ExecMainStartTimestamp", "StateChangeTimestamp", "MemoryCurrent",
      "CPUUsageNSec", "StatusText">>

\* stdout of `systemctl show <unit>`: one key=value line per property
RECURSIVE ShowLines(_, _)
ShowLines(u, keys) ==
    IF Len(keys) = 0 THEN ""
    ELSE (IF u[Head(keys)] = None THEN ""
          ELSE Head(keys) \o "=" \o u[Head(keys)] \o "\n")
         \o ShowLines(u, Tail(keys))
ShowStdout(u) == ShowLines(u, ShowKeys)

NginxRunning == Unit("nginx", "812", "loaded", "active", "running")
NginxDead == Unit("nginx", "0", "loaded", "inactive", "dead")
CronDead == Unit("cron", "0", "loaded", "inactive", "dead")
\* a unit whose status text spans two lines: the second line has no "="
TwoLineStatus ==
    [Unit("backup", "977", "loaded", "active", "running")
        EXCEPT !.StatusText = "copying\nvolume 2 of 3"]

\* a container as `docker inspect` prints it
Container(id, name, project, service, status) ==
    [Id |-> id, Name |-> "/" \o name, Image |-> "sha256:0123456789abcdef",
     Created |-> "2024-01-01T00:00:00.123456789Z",
     State |-> [Status |-> status,
                StartedAt |-> "2024-01-02T00:00:00.5Z",
                FinishedAt |-> "0001-01-01T00:00:00Z"],
     Config |-> [Image |-> "nginx:1.25",
                 Labels |-> IF project = "" THEN EmptyDict
                            ELSE ("com.docker.compose.project" :> project)
                                 @@ ("com.docker.compose.service" :> service)],
     NetworkSettings |-> [Ports |-> << <<"80/tcp", <<[HostIp |-> "0.0.0.0",
                                                      HostPort |-> "8080"]>> >> >>],
     HostConfig |-> [NetworkMode |-> "bridge"],
     Mounts |-> <<[Type |-> "bind"]>>]

IdA == "aaaaaaaaaaaa0001"
IdB == "bbbbbbbbbbbb0002"
AppA == Container(IdA, "web-app-1", "web", "app", "running")
AppB == Container(IdB, "web-app-2", "web", "app", "exited")
\* a volume, which `docker inspect` describes without an Image key
NotAContainer == [Name |-> "data", Mountpoint |-> "/var/lib/docker/volumes/data"]

\* the units and inspected objects of the model, and what the two parsers make
\* of each (the parsers are pure: the tables hold their results)
AllUnits == {NginxRunning, NginxDead, CronDead, TwoLineStatus}
Shown == [u \in AllUnits |-> SystemctlShow(ShowStdout(u))]

\* one line of `docker ps --format {{.ID}}` and what `docker inspect` of that
\* id prints
Listed(c) == [cid |-> StrTake(c.Id, 12), out |-> JsonArray(<<c>>)]
ListedA == Listed(AppA)
ListedB == Listed(AppB)
\* an id that `docker inspect` resolves to an object that is no container
ListedOther == [cid |-> "cccccccccccc", out |-> JsonArray(<<NotAContainer>>)]
AllListed == {ListedA, ListedB, ListedOther}
Inspected == [e \in AllListed |-> DockerInspect(e.cid, e.out)]

\* the stack-definition file as Config holds it, with each compose file it
\* names
\* io.read_yaml of a compose file: a mapping (None for an empty document);
\* a file that is missing reads as the empty mapping {}
YamlDict(serviceds) == [py |-> "dict", services |-> serviceds]
YamlNone == [py |-> "None", services |-> <<>>]
YamlMissing == YamlDict(<<>>)
ComposeApp == YamlDict(<<[name |-> "app", image |-> "nginx:1.25", ports |-> <<>>]>>)
\* a file on disk: missing, not YAML ("invalid"), an empty document
\* ("empty"), or a mapping whose `services` are serviceds ("mapping")
YamlFile(kind, serviceds) == [kind |-> kind, services |-> serviceds]
\* io.read_yaml(path): what it returns and the error it logs
ReadYaml(file) ==
    IF file.kind = "missing" THEN [ret |-> YamlMissing, log |-> "missing YAML file"]
    ELSE IF file.kind = "invalid" THEN [ret |-> YamlDict(<<>>), log |-> "failed importing"]
    ELSE IF file.kind = "empty" THEN [ret |-> YamlNone, log |-> None]
    ELSE [ret |-> YamlDict(file.services), log |-> None]
CfgWeb ==
    [systemd |-> <<"nginx">>,
     compose |-> <<[name |-> "web", ignored |-> FALSE,
                    file |-> YamlFile("mapping", ComposeApp.services)]>>]
CfgUnits ==
    [systemd |-> <<"nginx.service", "cron">>,
     compose |-> <<[name |-> "web", ignored |-> TRUE,
                    file |-> YamlFile("mapping", ComposeApp.services)]>>]
Configs == {CfgWeb, CfgUnits}
\* a config whose project "web" is not ignored and whose compose file is not
\* on disk
CfgLost ==
    [systemd |-> <<"nginx">>,
     compose |-> <<[name |-> "web", ignored |-> FALSE,
                    file |-> YamlFile("missing", <<>>)]>>]
\* the configs of a command line run: the compose file can also be a file
\* that is not YAML or an empty document, and its service can publish ports
CliConfigs ==
    Configs \cup {CfgLost}
    \cup {[CfgLost EXCEPT !.compose[1].file = YamlFile(k, <<>>)] : k \in {"invalid", "empty"}}
    \cup {[CfgWeb EXCEPT !.compose[1].file.services[1].ports = q] :
             q \in {<<"8080:80">>, <<"0.0.0.0:8080:80">>, <<"80">>,
                    <<"8080:80", "8443:443">>}}

----------------------------------------------------------------------------
(* Stack: the three population strategies and the table *)

\* the outcome of a population call: heap, Stack, and the exception that
\* left it (None when it returned)
Outcome(h, svcs, exc) == [heap |-> h, services |-> svcs, exc |-> exc]

\* stdout of `docker ps --all --format {{.ID}}` listing ps
RECURSIVE PsStdout(_)
PsStdout(ps) ==
    IF Len(ps) = 0 THEN "" ELSE Head(ps).cid \o "\n" \o PsStdout(Tail(ps))

\* [i for i in lines if i]
RECURSIVE NonEmpty(_)
NonEmpty(lines) ==
    IF Len(lines) = 0 THEN <<>>
    ELSE (IF Head(lines) # "" THEN <<Head(lines)>> ELSE <<>>) \o NonEmpty(Tail(lines))

\* what `docker inspect id` makes of the object: the listed entry of that id
InspectOf(ps, id) == Inspected[CHOOSE e \in AllListed : e.cid = id /\ \E i \in 1..Len(ps) : ps[i] = e]

\* a faulty add of load_dockerd that keeps the entry it finds
DockerdAddKeepOld(h, svcs, svc) ==
    StackAdd(Append(h, svc), svcs, Ref(Len(h) + 1), FALSE)
\* s = Service(); s.docker_inspect(id) raised nothing; self.add(s, replace=True)
DockerdAdd(h, svcs, svc) ==
    StackAdd(Append(h, svc), svcs, Ref(Len(h) + 1), TRUE)

\* the for loop of load_dockerd: no try/except, so the first exception of
\* docker_inspect leaves the loop and the method
RECURSIVE DockerdLoop(_, _, _, _)
DockerdLoop(h, svcs, ids, ps) ==
    IF Len(ids) = 0 THEN Outcome(h, svcs, None)
    ELSE With(InspectOf(ps, Head(ids)), LAMBDA r :
             IF r.exc # None THEN Outcome(Append(h, r.svc), svcs, r.exc)
             ELSE With(DockerdAdd(h, svcs, r.svc), LAMBDA a :
                      DockerdLoop(a.heap, a.services, Tail(ids), ps)))

\* Stack.load_dockerd() against a docker that lists ps
StackLoadDockerd(h, svcs, ps) ==
    DockerdLoop(h, svcs, NonEmpty(ProcessLines(PsStdout(ps))), ps)

\* stdout of `systemctl list-units --type=service --all --plain --no-legend`
RECURSIVE ListUnitsStdout(_)
ListUnitsStdout(us) ==
    IF Len(us) = 0 THEN ""
    ELSE Head(us).Id \o " " \o Head(us).LoadState \o " " \o Head(us).ActiveState
         \o " " \o Head(us).SubState \o " a service\n" \o ListUnitsStdout(Tail(us))

\* units = [line.split(" ")[0].replace(".service", "") for line in units]
RECURSIVE UnitNames(_)
UnitNames(lines) ==
    IF Len(lines) = 0 THEN <<>>
    ELSE <<StrReplace(SplitAll(Head(lines), " ")[1], ".service", "")>>
         \o UnitNames(Tail(lines))

\* the filter argument of load_systemd
NoFilter == [kind |-> "dict", ids |-> <<>>, has_id |-> FALSE]      \* {} (the default)
ConfigFilter(c) == [kind |-> "Config", ids |-> c, has_id |-> FALSE] \* a Config object
IdFilter(ids) == [kind |-> "dict", ids |-> ids, has_id |-> TRUE]    \* {"Id": [...]}

\* re.sub(r"\.service$", "", name)
StripServiceSuffix(name) ==
    IF Len(name) >= 8 /\ StrFrom(name, Len(name) - 8) = ".service"
    THEN StrTake(name, Len(name) - 8) ELSE name

\* Config.get_systemd_units
RECURSIVE StripAll(_)
StripAll(names) ==
    IF Len(names) = 0 THEN <<>>
    ELSE <<StripServiceSuffix(Head(names))>> \o StripAll(Tail(names))
GetSystemdUnits(c) == StripAll(c.systemd)

\* bool(filter), and the filter after `if isinstance(filter, config.Config)`
FilterTruthy(f) == f.kind = "Config" \/ f.has_id
FilterDict(f) == IF f.kind = "Config" THEN IdFilter(GetSystemdUnits(f.ids)) ELSE f

\* [id for id in units if id in filter["Id"]]
RECURSIVE KeepListed(_, _)
KeepListed(units, ids) ==
    IF Len(units) = 0 THEN <<>>
    ELSE (IF \E i \in 1..Len(ids) : ids[i] = Head(units) THEN <<Head(units)>> ELSE <<>>)
         \o KeepListed(Tail(units), ids)

\* s.wanted = filter and "Id" in filter
SystemdWanted(f) ==
    IF ~FilterTruthy(f) THEN PyEmptyDict
    ELSE IF FilterDict(f).has_id THEN PyTrue ELSE PyFalse

\* what `systemctl show name` makes of the object; on a host where
\* systemctl cannot be invoked (the empty listing) the command prints nothing
ShownNoSystemctl == SystemctlShow("")
ShowOf(us, name) ==
    IF Len(us) = 0 THEN ShownNoSystemctl
    ELSE Shown[CHOOSE u \in AllUnits :
                  u.Id = name \o ".service" /\ \E i \in 1..Len(us) : us[i] = u]

\* s = Service(); s.systemctl_show(unit) raised nothing; s.wanted is set;
\* self.add(s)
SystemdAdd(h, svcs, svc) ==
    StackAdd(Append(h, svc), svcs, Ref(Len(h) + 1), TRUE)

\* the for loop of load_systemd: no try/except either
RECURSIVE SystemdLoop(_, _, _, _, _)
SystemdLoop(h, svcs, units, us, wanted) ==
    IF Len(units) = 0 THEN Outcome(h, svcs, None)
    ELSE With(ShowOf(us, Head(units)), LAMBDA r :
             IF r.exc # None THEN Outcome(Append(h, r.svc), svcs, r.exc)
             ELSE With(SystemdAdd(h, svcs, [r.svc EXCEPT !.wanted = wanted]),
                       LAMBDA a : SystemdLoop(a.heap, a.services, Tail(units),
                                              us, wanted)))

\* Stack.load_systemd(filter) against a systemd that lists us
StackLoadSystemd(h, svcs, us, f) ==
    With(UnitNames(ProcessLines(ListUnitsStdout(us))), LAMBDA all :
        SystemdLoop(h, svcs,
                    IF FilterTruthy(f) /\ FilterDict(f).has_id
                    THEN KeepListed(all, FilterDict(f).ids) ELSE all,
                    us, SystemdWanted(f)))

\* the port strings load_config derives from a service's `ports` list
RECURSIVE JoinSpace(_)
JoinSpace(strs) ==
    IF Len(strs) = 0 THEN ""
    ELSE IF Len(strs) = 1 THEN Head(strs)
    ELSE Head(strs) \o " " \o JoinSpace(Tail(strs))
\* re.sub(r"^0\.0\.0\.0:", "", ports)
ConfigPortmap0(ports) ==
    IF StartsWith(ports, "0.0.0.0:") THEN StrFrom(ports, 8) ELSE ports
\* re.sub(r":.*", "", portmap)
ConfigPorts(portmap0) ==
    IF StrFind(portmap0, ":") = 0 THEN portmap0
    ELSE StrTake(portmap0, StrFind(portmap0, ":") - 1)
\* portmap.split(":", 1); portmap[1] = f"({portmap[1]})"; "".join(portmap)
ConfigPortmap(portmap0) ==
    LET p == Split1(portmap0, ":")
    IN  IF Len(p) > 1 THEN p[1] \o "(" \o p[2] \o ")" ELSE p[1]

\* the placeholder load_config constructs for one compose service
ComposePlaceholder(project, serviced) ==
    LET portmap0 == ConfigPortmap0(JoinSpace(serviced.ports))
    IN  ServiceInit([wanted |-> PyTrue, type |-> "compose", stack |-> project,
                     name |-> serviced.name, image |-> serviced.image,
                     netport |-> PyStr(ConfigPorts(portmap0)),
                     netmap |-> PyStr(ConfigPortmap(portmap0))])

\* a for loop of load_config: construct each placeholder and add it
RECURSIVE AddEach(_, _, _)
AddEach(h, svcs, news) ==
    IF Len(news) = 0 THEN Outcome(h, svcs, None)
    ELSE With(StackAdd(Append(h, Head(news)), svcs, Ref(Len(h) + 1), TRUE),
              LAMBDA a : AddEach(a.heap, a.services, Tail(news)))

RECURSIVE UnitPlaceholders(_)
UnitPlaceholders(units) ==
    IF Len(units) = 0 THEN <<>>
    ELSE <<ServiceInit([wanted |-> PyTrue, type |-> "systemd", stack |-> "systemd",
                        name |-> Head(units)])>>
         \o UnitPlaceholders(Tail(units))

RECURSIVE ServicePlaceholders(_, _)
ServicePlaceholders(project, serviceds) ==
    IF Len(serviceds) = 0 THEN <<>>
    ELSE <<ComposePlaceholder(project, Head(serviceds))>>
         \o ServicePlaceholders(project, Tail(serviceds))

\* a faulty projects loop that does not look at `ignored`
RECURSIVE ComposePlaceholdersAll(_)
ComposePlaceholdersAll(projects) ==
    IF Len(projects) = 0 THEN <<>>
    ELSE ServicePlaceholders(Head(projects).name,
                             ReadYaml(Head(projects).file).ret.services)
         \o ComposePlaceholdersAll(Tail(projects))
\* the projects loop: ignored projects and compose files that read as None
\* are skipped; a missing compose file reads as {} and has no services
RECURSIVE ComposePlaceholders(_)
ComposePlaceholders(projects) ==
    IF Len(projects) = 0 THEN <<>>
    ELSE (IF Head(projects).ignored THEN <<>>
          ELSE With(ReadYaml(Head(projects).file).ret, LAMBDA composed :
                   IF composed.py = "None" THEN <<>>
                   ELSE ServicePlaceholders(Head(projects).name, composed.services)))
         \o ComposePlaceholders(Tail(projects))

\* Stack.load_config(cfg)
StackLoadConfig(h, svcs, c) ==
    AddEach(h, svcs, UnitPlaceholders(GetSystemdUnits(c)) \o ComposePlaceholders(c.compose))

\* key.upper()
LowerCase == "abcdefghijklmnopqrstuvwxyz"
UpperCase == "ABCDEFGHIJKLMNOPQRSTUVWXYZ"
RECURSIVE Upper(_)
Upper(s) ==
    IF Len(s) = 0 THEN ""
    ELSE LET i == StrFind(LowerCase, StrTake(s, 1))
         IN  (IF i = 0 THEN StrTake(s, 1) ELSE CharAt(UpperCase, i))
             \o Upper(StrFrom(s, 1))
UpperKey == [f \in Fields |-> Upper(f)]

\* a faulty table that lists the entries last to first
StackTableReversed(h, svcs) ==
    [i \in 1..Len(svcs) |->
        [k \in {UpperKey[f] : f \in Fields} |->
            h[svcs[Len(svcs) + 1 - i]][CHOOSE f \in Fields : UpperKey[f] = k]]]
\* Stack.table(): one row per entry, in the Stack's order
Row(svc) ==
    [k \in {UpperKey[f] : f \in Fields} |->
        svc[CHOOSE f \in Fields : UpperKey[f] = k]]
StackTable(h, svcs) == [i \in 1..Len(svcs) |-> Row(h[svcs[i]])]

----------------------------------------------------------------------------
(* The record of the last operation *)

NoInput == <<>>
\* no Process runs live
NoLive == [pc |-> "none"]

Op(name, item, replace, again, ret, exc, input) ==
    [op |-> name, item |-> item, replace |-> replace, again |-> again,
     ret |-> ret, exc |-> exc, input |-> input,
     heap |-> heap, services |-> services]

Init ==
    /\ heap = <<>>
    /\ services = <<>>
    /\ last = [op |-> "Stack", item |-> NotAService, replace |-> FALSE,
               again |-> FALSE, ret |-> None, exc |-> None, input |-> NoInput,
               heap |-> <<>>, services |-> <<>>]
    /\ hist = <<>>
    /\ cfg = CfgWeb
    /\ run_live = NoLive

----------------------------------------------------------------------------
(* Spec: Services constructed by hand and handed to Stack.add *)


\* keyword arguments of the placeholders a caller constructs
PlaceholderKwargs ==
    {[wanted |-> w, type |-> sn[1], stack |-> sn[2], name |-> sn[3]] :
        w \in {PyTrue, PyFalse},
        sn \in {<<"systemd", "systemd", "nginx">>, <<"compose", "web", "app">>}}

\* s = Service(**kwargs)
NewService(kwargs) ==
    /\ Len(heap) < MaxObj
    /\ heap' = Append(heap, ServiceInit(kwargs))
    /\ last' = Op("Service", Ref(Len(heap) + 1), FALSE, FALSE, None, None, kwargs)
    /\ UNCHANGED <<services, hist, cfg, run_live>>

\* stack.add(item, replace)
Add(item, replace) ==
    LET r == StackAdd(heap, services, item, replace)
    IN  /\ heap' = r.heap
        /\ services' = r.services
        /\ last' = Op("add", item, replace,
                      last.op = "add" /\ last.item = item /\ last.replace = replace,
                      r.ret, None, NoInput)
        /\ UNCHANGED <<hist, cfg, run_live>>

\* s = Service(); s.systemctl_show(name)
NewShown(u) ==
    /\ Len(heap) < MaxObj
    /\ Shown[u].exc = None
    /\ heap' = Append(heap, Shown[u].svc)
    /\ last' = Op("systemctl_show", Ref(Len(heap) + 1), FALSE, FALSE, PyTrue, None, u)
    /\ UNCHANGED <<services, hist, cfg, run_live>>

\* s = Service(); s.docker_inspect(cid)
NewInspected(c) ==
    /\ Len(heap) < MaxObj
    /\ Inspected[c].exc = None
    /\ heap' = Append(heap, Inspected[c].svc)
    /\ last' = Op("docker_inspect", Ref(Len(heap) + 1), FALSE, FALSE, PyTrue, None, c)
    /\ UNCHANGED <<services, hist, cfg, run_live>>

Next ==
    \/ \E kw \in PlaceholderKwargs : NewService(kw)
    \/ \E u \in {NginxRunning, NginxDead, CronDead} : NewShown(u)
    \/ \E c \in {ListedA, ListedB} : NewInspected(c)
    \/ \E o \in 1..Len(heap), replace \in BOOLEAN : Add(Ref(o), replace)
    \/ \E replace \in BOOLEAN : Add(NotAService, replace)

Spec == Init /\ [][Next]_vars

----------------------------------------------------------------------------
(* SpecPs: a run that populates one Stack from the config and the backends *)

\* the sequences of at most n distinct elements of S
RECURSIVE SeqsUpTo(_, _)
SeqsUpTo(S, n) ==
    IF n = 0 THEN {<<>>}
    ELSE LET shorter == SeqsUpTo(S, n - 1)
         IN  shorter \cup
             {Append(q, x) : q \in {t \in shorter : Len(t) = n - 1}, x \in S}
Distinct(q) == \A i, j \in 1..Len(q) : i # j => q[i] # q[j]

\* what docker ps can list
DockerListings == {q \in SeqsUpTo(AllListed, MaxPs) : Distinct(q)}

\* what systemctl list-units can list: units of distinct names; the empty
\* listing is the host where systemctl cannot be invoked and prints nothing
DistinctIds(q) == \A i, j \in 1..Len(q) : i # j => q[i].Id # q[j].Id
SystemdListings == {q \in SeqsUpTo(AllUnits, MaxUnits) : DistinctIds(q)}

Call(name, input) == [op |-> name, input |-> input]

InitPs ==
    /\ heap = <<>>
    /\ services = <<>>
    /\ last = [op |-> "Stack", item |-> NotAService, replace |-> FALSE,
               again |-> FALSE, ret |-> None, exc |-> None, input |-> NoInput,
               heap |-> <<>>, services |-> <<>>]
    /\ hist = <<>>
    /\ cfg \in Configs
    /\ run_live = NoLive

Finish(name, input, r) ==
    /\ heap' = r.heap
    /\ services' = r.services
    /\ last' = Op(name, NotAService, TRUE, FALSE, None, r.exc, input)
    /\ hist' = Append(hist, Call(name, input))
    /\ UNCHANGED <<cfg, run_live>>

\* stack.load_config(cfg)
LoadConfig ==
    /\ Len(hist) < MaxLoads
    /\ Finish("load_config", cfg, StackLoadConfig(heap, services, cfg))

\* stack.load_dockerd()
LoadDockerd(ps) ==
    /\ Len(hist) < MaxLoads
    /\ Finish("load_dockerd", ps, StackLoadDockerd(heap, services, ps))

\* stack.load_systemd(filter)
LoadSystemd(us, f) ==
    /\ Len(hist) < MaxLoads
    /\ Finish("load_systemd", [units |-> us, filter |-> f],
              StackLoadSystemd(heap, services, us, f))

\* stack.table()
Table ==
    /\ last.op # "table"
    /\ last' = Op("table", NotAService, FALSE, FALSE,
                  StackTable(heap, services), None, NoInput)
    /\ UNCHANGED <<heap, services, hist, cfg, run_live>>

NextPs ==
    \/ LoadConfig
    \/ \E ps \in DockerListings : LoadDockerd(ps)
    \/ \E us \in SystemdListings, f \in {NoFilter, ConfigFilter(cfg)} : LoadSystemd(us, f)
    \/ Table

SpecPs == InitPs /\ [][NextPs]_vars

----------------------------------------------------------------------------
(* SpecShow: systemctl_show against a unit in every combination of states *)

\* what the four state properties can read; None is a property that
\* `systemctl show` does not print, "" one it prints with an empty value
LoadStates == {None, "", "loaded", "not-found", "masked"}
FreezerStates == {None, "", "running", "frozen"}
ActiveStates == {None, "", "active", "inactive", "failed"}
SubStates == {None, "", "running", "exited", "dead"}

\* what MemoryCurrent and CPUUsageNSec can read (None: not printed)
ShowMems == {None, "", "[not set]", "0", "1610612736", "2147483648"}
ShowCpus ==
    {None, "", "[not set]", "0", "40000000", "999999999", "1234567890",
     "59960000000", "61000000000", "119960000000", "3600000000000",
     "3661500000000", "7200040000000"}

StateUnit(load, freeze, active, sub) ==
    [Unit("nginx", "812", load, active, sub) EXCEPT !.FreezerState = freeze]

\* s = Service(), on a host whose systemd holds one unit in some states
InitShow ==
    /\ heap = <<ServiceInit([wanted |-> PyFalse])>>
    /\ services = <<>>
    /\ hist = <<>>
    /\ cfg = CfgWeb
    /\ run_live = NoLive
    /\ \E load \in LoadStates, freeze \in FreezerStates,
          active \in ActiveStates, sub \in SubStates,
          mem \in ShowMems, cpu \in ShowCpus :
          \* the states vary on a unit with no accounting, the accounting
          \* on a running unit
          /\ \/ mem = "[not set]" /\ cpu = "[not set]"
             \/ /\ load = "loaded" /\ freeze = "running"
                /\ active = "active" /\ sub = "running"
          /\ last = [op |-> "Service", item |-> Ref(1), replace |-> FALSE,
                     again |-> FALSE, ret |-> None, exc |-> None,
                     input |-> [StateUnit(load, freeze, active, sub) EXCEPT
                                  !.MemoryCurrent = mem, !.CPUUsageNSec = cpu],
                     heap |-> <<>>, services |-> <<>>]

\* s.systemctl_show(name)
Show ==
    /\ last.op = "Service"
    /\ LET r == SystemctlShow(ShowStdout(last.input))
       IN  /\ heap' = [heap EXCEPT ![1] = r.svc]
           /\ last' = Op("systemctl_show", Ref(1), FALSE, FALSE,
                         IF r.exc = None THEN PyTrue ELSE None, r.exc, last.input)
    /\ UNCHANGED <<services, hist, cfg, run_live>>

NextShow == Show

SpecShow == InitShow /\ [][NextShow]_vars

----------------------------------------------------------------------------
(* SpecInspect: docker_inspect against a container whose timestamps, ports
   and mounts vary *)

MaxPorts == 2
MaxMounts == 3

\* a key that the JSON object does not have
Absent == "<absent>"
Drop(d, keys) == [k \in DOMAIN d \ keys |-> d[k]]

\* what Created, State.StartedAt and State.FinishedAt can read: absent, null,
\* docker's zero time, and two instants
InspectTimes ==
    {Absent, None, "0001-01-01T00:00:00Z",
     "2024-01-01T00:00:00.123456789Z", "2024-01-02T00:00:00.5Z"}

\* the items of NetworkSettings.Ports: a bound port, a port published to
\* nothing (null) and one with an empty list of bindings
InspectPorts ==
    {q \in SeqsUpTo({<<"80/tcp", <<[HostIp |-> "0.0.0.0", HostPort |-> "8080"]>> >>,
                     <<"443/tcp", None>>,
                     <<"53/udp", <<>> >>}, MaxPorts) : Distinct(q)}

\* the Mounts list
InspectMounts ==
    SeqsUpTo({[Type |-> "volume"], [Type |-> "bind"], [Type |-> "tmpfs"]}, MaxMounts)

\* what the label com.docker.compose.project can read: absent, empty, and
\* two project names
InspectProjects == {Absent, "", "web", "compose"}

\* the object `docker inspect` prints for the container
InspectContainer(created, started, finished, ports, mounts, project) ==
    Drop([AppA EXCEPT
            !.Created = created,
            !.Config = [Image |-> "nginx:1.25",
                        Labels |-> IF project = Absent
                                   THEN ("com.docker.compose.service" :> "app")
                                   ELSE ("com.docker.compose.project" :> project)
                                        @@ ("com.docker.compose.service" :> "app")],
            !.State = Drop([Status |-> "running", StartedAt |-> started,
                            FinishedAt |-> finished],
                           (IF started = Absent THEN {"StartedAt"} ELSE {})
                           \cup (IF finished = Absent THEN {"FinishedAt"} ELSE {})),
            !.NetworkSettings = [Ports |-> ports],
            !.Mounts = mounts],
         IF created = Absent THEN {"Created"} ELSE {})

\* s = Service(), on a host whose docker holds one container
InitInspect ==
    /\ heap = <<ServiceInit([wanted |-> PyFalse])>>
    /\ services = <<>>
    /\ hist = <<>>
    /\ cfg = CfgWeb
    /\ run_live = NoLive
    /\ \E created \in InspectTimes, started \in InspectTimes,
          finished \in InspectTimes, ports \in InspectPorts,
          mounts \in InspectMounts, project \in InspectProjects :
          \* the project varies on one container, the rest on project "web"
          /\ \/ project = "web"
             \/ /\ created = "2024-01-01T00:00:00.123456789Z"
                /\ started = "2024-01-02T00:00:00.5Z"
                /\ finished = "0001-01-01T00:00:00Z"
                /\ ports = <<>> /\ mounts = <<>>
          /\ last = [op |-> "Service", item |-> Ref(1), replace |-> FALSE,
                     again |-> FALSE, ret |-> None, exc |-> None,
                     input |-> [created |-> created, started |-> started,
                                finished |-> finished, ports |-> ports,
                                mounts |-> mounts, project |-> project],
                     heap |-> <<>>, services |-> <<>>]

\* s.docker_inspect(cid)
Inspect ==
    /\ last.op = "Service"
    /\ LET i == last.input
           r == DockerInspect(StrTake(IdA, 12),
                              JsonArray(<<InspectContainer(i.created, i.started,
                                              i.finished, i.ports, i.mounts,
                                              i.project)>>))
       IN  /\ heap' = [heap EXCEPT ![1] = r.svc]
           /\ last' = Op("docker_inspect", Ref(1), FALSE, FALSE,
                         IF r.exc = None THEN PyTrue ELSE None, r.exc, i)
    /\ UNCHANGED <<services, hist, cfg, run_live>>

NextInspect == Inspect

SpecInspect == InitInspect /\ [][NextInspect]_vars

----------------------------------------------------------------------------
(* SpecCli: one invocation of the command line, `services` (ps) command *)

COMPOSE_STACK_CONFIG == "~/compose-stack.yaml"

\* the path Config.__init__ settles on: the argument, else the environment
\* variable COMPOSE_STACK_CONFIG, else the default
ConfigPath(path, env) ==
    IF path # None THEN path ELSE IF env # None THEN env ELSE COMPOSE_STACK_CONFIG

\* a faulty Config.__init__ that does not look for the file
ConfigInitNoCheck(path, env, exists) ==
    [exc |-> None, path |-> ConfigPath(path, env)]
\* Config(path) where os.path.exists answers `exists` for the path settled on
ConfigInit(path, env, exists) ==
    [exc |-> IF ~exists THEN "ValueError" ELSE None, path |-> ConfigPath(path, env)]

\* the parsed arguments of `services`, the environment variable, and
\* whether the stack-definition file is on disk
CliArgs ==
    [config_path : {None, "stack.yaml"}, env : {None, "env.yaml"},
     exists : BOOLEAN, only_config : BOOLEAN, name : {None, "nginx"}]

args == hist[1].input

\* a = p.parse_args()
InitCli ==
    /\ heap = <<>>
    /\ services = <<>>
    /\ cfg \in CliConfigs
    /\ run_live = NoLive
    /\ \E a \in CliArgs :
          /\ hist = <<Call("main", a)>>
          /\ last = [op |-> "parse_args", item |-> NotAService, replace |-> FALSE,
                     again |-> FALSE, ret |-> None, exc |-> None, input |-> a,
                     heap |-> <<>>, services |-> <<>>]

\* c = Config(a.config_path)
CliConfig ==
    /\ last.op = "parse_args"
    /\ LET r == ConfigInit(args.config_path, args.env, args.exists)
       IN  /\ last' = Op("Config", NotAService, FALSE, FALSE, None, r.exc, r.path)
           /\ hist' = Append(hist, Call("Config", r.path))
    /\ UNCHANGED <<heap, services, cfg, run_live>>

\* a.func(a, p, c): stack = service.Stack(); stack.load_config(cfg)
CliLoadConfig ==
    /\ last.op = "Config" /\ last.exc = None
    /\ Finish("load_config", cfg, StackLoadConfig(heap, services, cfg))

\* if args.only_config: io.print_table(stack.table()); return
CliOnlyConfig ==
    /\ last.op = "load_config" /\ last.exc = None
    /\ args.only_config
    /\ last' = Op("table", NotAService, FALSE, FALSE,
                  StackTable(heap, services), None, NoInput)
    /\ hist' = Append(hist, Call("table", NoInput))
    /\ UNCHANGED <<heap, services, cfg, run_live>>

\* if args.name: log.critical(...); return
CliName ==
    /\ last.op = "load_config" /\ last.exc = None
    /\ ~args.only_config /\ Truthy(args.name)
    /\ last' = Op("return", NotAService, FALSE, FALSE, None, None, NoInput)
    /\ UNCHANGED <<heap, services, hist, cfg, run_live>>

\* stack.load_dockerd()
CliLoadDockerd(ps) ==
    /\ last.op = "load_config" /\ last.exc = None
    /\ ~args.only_config /\ ~Truthy(args.name)
    /\ Finish("load_dockerd", ps, StackLoadDockerd(heap, services, ps))

\* stack.load_systemd(filter=cfg)
CliLoadSystemd(us) ==
    /\ last.op = "load_dockerd" /\ last.exc = None
    /\ Finish("load_systemd", [units |-> us, filter |-> ConfigFilter(cfg)],
              StackLoadSystemd(heap, services, us, ConfigFilter(cfg)))

\* io.print_table(stack.table(), output_columns=cols)
CliTable ==
    /\ last.op = "load_systemd" /\ last.exc = None
    /\ last' = Op("table", NotAService, FALSE, FALSE,
                  StackTable(heap, services), None, NoInput)
    /\ hist' = Append(hist, Call("table", NoInput))
    /\ UNCHANGED <<heap, services, cfg, run_live>>

NextCli ==
    \/ CliConfig
    \/ CliLoadConfig
    \/ CliOnlyConfig
    \/ CliName
    \/ \E ps \in DockerListings : CliLoadDockerd(ps)
    \/ \E us \in SystemdListings : CliLoadSystemd(us)
    \/ CliTable

SpecCli == InitCli /\ [][NextCli]_vars

----------------------------------------------------------------------------
(* SpecLive: Process.run_live, the subprocess it starts and its polling loop *)

\* n_lines of the window, lines the subprocess writes to stdout, chunks it
\* writes to stderr, and chunks the stderr pipe holds (nobody reads it)
MaxWindow == 2
MaxLines == 3
MaxErr == 2
PipeCap == 1

\* the window of a redraw: print_lines = [""] * n_lines;
\* last_lines = out_lines[-n_lines:]; print_lines[-len(last_lines):] = last_lines
PrintLines(out_lines, n_lines) ==
    LET last_lines == IF n_lines = 0 THEN out_lines
                      ELSE SubSeq(out_lines, Len(out_lines) - Min(n_lines, Len(out_lines)) + 1,
                                  Len(out_lines))
        k == Len(last_lines)
    IN  IF k = 0 THEN <<>>
        ELSE [j \in 1..(n_lines - Min(k, n_lines)) |-> ""] \o last_lines

\* a Process whose command is the list __init__ stored or a string assigned
\* later, with the program its subprocess will run: the lines it writes to
\* stdout and the chunks it writes to stderr
InitLive ==
    /\ heap = <<>>
    /\ services = <<>>
    /\ hist = <<>>
    /\ cfg = CfgWeb
    /\ last = [op |-> "Process", item |-> NotAService, replace |-> FALSE,
               again |-> FALSE, ret |-> None, exc |-> None, input |-> NoInput,
               heap |-> <<>>, services |-> <<>>]
    /\ \E command \in {"list", "str"}, n_lines \in 0..MaxWindow,
          script \in SeqsUpTo({"a", "b"}, MaxLines), err \in 0..MaxErr :
          run_live = [pc |-> "create", command |-> command, n_lines |-> n_lines,
                      proc |-> "none", script |-> script, err |-> err,
                      stdout |-> <<>>, stderr |-> 0,
                      out_lines |-> <<>>, out_line |-> None,
                      previous_out_line |-> None, i |-> 0,
                      window |-> <<>>, drawn |-> FALSE, ret |-> None, exc |-> None]

\* asyncio.create_subprocess_shell(self.command, stdout=pipe, stderr=pipe):
\* ValueError for a command that is no string; then console.flush of
\* n_lines lines and the first poll
CreateLive ==
    /\ run_live.pc = "create"
    /\ run_live' =
          IF run_live.command # "str"
          THEN [run_live EXCEPT !.pc = "raised", !.exc = "ValueError"]
          ELSE [run_live EXCEPT !.pc = "read", !.proc = "running",
                                !.window = [j \in 1..run_live.n_lines |-> ""]]
    /\ UNCHANGED <<heap, services, last, hist, cfg>>

\* a step of the subprocess: it writes its next line to stdout, or a chunk
\* to stderr while the pipe has room, or exits when it has written all
Subprocess ==
    /\ run_live.proc = "running"
    /\ \/ /\ Len(run_live.script) > 0
          /\ run_live' = [run_live EXCEPT
                            !.stdout = Append(@, Head(run_live.script) \o "\n"),
                            !.script = Tail(@)]
       \/ /\ run_live.err > 0 /\ run_live.stderr < PipeCap
          /\ run_live' = [run_live EXCEPT !.stderr = @ + 1, !.err = @ - 1]
       \/ /\ Len(run_live.script) = 0 /\ run_live.err = 0
          /\ run_live' = [run_live EXCEPT !.proc = "exited"]
    /\ UNCHANGED <<heap, services, last, hist, cfg>>

\* out_line = await proc.stdout.readline() in the inner while: a line, or
\* b"" at the end of output; `more` is the clock leaving time for another
\* readline in this poll
ReadLine(more) ==
    /\ run_live.pc = "read"
    /\ Len(run_live.stdout) > 0 \/ run_live.proc = "exited"
    /\ run_live' =
          IF Len(run_live.stdout) > 0
          THEN [run_live EXCEPT
                  !.out_line = Head(run_live.stdout),
                  !.stdout = Tail(@),
                  !.i = @ + 1,
                  !.out_lines = Append(@, RStrip(Head(run_live.stdout), "\n")),
                  !.pc = IF more THEN "read" ELSE "draw"]
          ELSE [run_live EXCEPT !.out_line = "", !.pc = "draw"]
    /\ UNCHANGED <<heap, services, last, hist, cfg>>

\* the rest of a poll: redraw when the last line read differs from the last
\* poll's, leave the loop after a poll that read no line
Redraw ==
    /\ run_live.pc = "draw"
    /\ run_live' =
          [run_live EXCEPT
             !.previous_out_line = run_live.out_line,
             !.window = IF run_live.previous_out_line # run_live.out_line
                        THEN PrintLines(run_live.out_lines, run_live.n_lines) ELSE @,
             !.drawn = @ \/ run_live.previous_out_line # run_live.out_line,
             !.i = 0,
             !.pc = IF run_live.i = 0 THEN "done" ELSE "read"]
    /\ UNCHANGED <<heap, services, last, hist, cfg>>

\* console.clear_lines(n_lines); await proc.wait(); self._update(proc);
\* return self.is_done (the asyncio process is no CompletedProcess)
ReturnLive ==
    /\ run_live.pc = "done" /\ run_live.proc = "exited"
    /\ run_live' = [run_live EXCEPT !.pc = "returned", !.ret = PyFalse]
    /\ UNCHANGED <<heap, services, last, hist, cfg>>

NextLive ==
    \/ CreateLive
    \/ Subprocess
    \/ \E more \in BOOLEAN : ReadLine(more)
    \/ Redraw
    \/ ReturnLive

SpecLive == InitLive /\ [][NextLive]_vars

\* the operating system runs the subprocess and the event loop runs the
\* coroutine whenever they can take a step
FairLive ==
    /\ SpecLive
    /\ WF_vars(Subprocess)
    /\ WF_vars(CreateLive \/ (\E more \in BOOLEAN : ReadLine(more)) \/ Redraw \/ ReturnLive)

----------------------------------------------------------------------------
(* Claims about Stack.add and Service.__eq__, checked under Spec *)

Entry(i) == heap[services[i]]
HasPid(x) == x.pid # None /\ x.pid # ""
SameName(x, y) == x.stack = y.stack /\ x.name = y.name
BoolOr(a, b) == IF a = PyTrue \/ b = PyTrue THEN PyTrue ELSE PyFalse
LastAddOfService == last.op = "add" /\ last.item.cls = "Service"

\* C1: after any sequence of Stack.add calls no two distinct positions of
\* the Stack hold Services that are equal under Service.__eq__.
C1_NoTwoEqualEntries ==
    \A i, j \in 1..Len(services) :
        i # j => ~ServiceEq(Entry(i), Entry(j))

\* C2: two Services that both carry a non-empty process_id are equal iff the
\* process_ids are equal, whatever their names; if either has no process_id
\* they are equal iff stack_name and name both match.
C2_IdentityRule ==
    \A a, b \in 1..Len(heap) :
        LET x == heap[a]
            y == heap[b]
        IN  /\ (HasPid(x) /\ HasPid(y)) => (ServiceEq(x, y) <=> x.pid = y.pid)
            /\ ~(HasPid(x) /\ HasPid(y)) => (ServiceEq(x, y) <=> SameName(x, y))

\* both halves of the rule at work: two objects equal by pid under different
\* names, and a placeholder equal to a live record by name
C2_Witness ==
    \E a, b, c \in 1..Len(heap) :
        /\ HasPid(heap[a]) /\ HasPid(heap[b]) /\ ~SameName(heap[a], heap[b])
        /\ ServiceEq(heap[a], heap[b])
        /\ ~HasPid(heap[c]) /\ ServiceEq(heap[c], heap[a])
        /\ ~ServiceEq(heap[c], heap[b])

\* C3 (merge OR-monotonicity): on a Stack holding only a placeholder
\* (wanted true, no process_id), Stack.add in replace mode of a live record
\* (wanted false) equal to it leaves a single entry: the live record, with
\* wanted true and every other slot as the parser filled it.
C3_Case ==
    /\ LastAddOfService
    /\ last.replace
    /\ Len(last.services) = 1
    /\ last.item.ref # last.services[1]
    /\ ~HasPid(last.heap[last.services[1]])
    /\ last.heap[last.services[1]].wanted = PyTrue
    /\ HasPid(last.heap[last.item.ref])
    /\ last.heap[last.item.ref].wanted = PyFalse
    /\ ServiceEq(last.heap[last.item.ref], last.heap[last.services[1]])
C3_MergeOrMonotone ==
    C3_Case =>
        /\ services = <<last.item.ref>>
        /\ Entry(1) = [last.heap[last.item.ref] EXCEPT !.wanted = PyTrue]
C3_Witness == C3_Case /\ Entry(1).state = "running" /\ Entry(1).wanted = PyTrue

\* C4 (merge idempotence): a second Stack.add of the same object, with the
\* same arguments, right after the first leaves the Stack and every Service
\* as the first add left them.
C4_MergeIdempotent ==
    (LastAddOfService /\ last.again) =>
        /\ services = last.services
        /\ heap = last.heap
\* the repeated add of an object whose first add merged it over another entry
C4_Witness ==
    /\ LastAddOfService /\ last.again
    /\ Len(services) >= 2
    /\ \E i \in 1..Len(services) : services[i] = last.item.ref /\ i < Len(services)
    /\ heap[last.item.ref].wanted = PyTrue

\* C5: Stack.add(item, replace=False) on a Stack holding an entry equal to
\* item keeps that entry's slots except wanted, which becomes item.wanted or
\* entry.wanted; the Stack holds the same objects in the same order (item is
\* not stored) and no other object changes.
C5_Case ==
    /\ LastAddOfService
    /\ ~last.replace
    /\ StackContains(last.heap, last.services, last.item.ref)
C5_NoReplaceKeepsEntry ==
    C5_Case =>
        LET i == FirstEq(last.heap, last.services, last.item.ref)
            e == last.services[i]
            before == last.heap[e]
            item == last.heap[last.item.ref]
        IN  /\ services = last.services
            /\ heap[e] = [before EXCEPT !.wanted = BoolOr(item.wanted, before.wanted)]
            /\ \A o \in 1..Len(heap) : o # e => heap[o] = last.heap[o]
\* a wanted item promoted an unwanted live entry and stayed outside the Stack
C5_Witness ==
    /\ C5_Case
    /\ \A i \in 1..Len(services) : services[i] # last.item.ref
    /\ \E i \in 1..Len(services) :
        /\ last.heap[services[i]].wanted = PyFalse
        /\ Entry(i).wanted = PyTrue
        /\ HasPid(Entry(i))
    /\ heap[last.item.ref].wanted = PyTrue

----------------------------------------------------------------------------
(* Claims about the systemd parser, checked under SpecShow *)

Unset(v) == v = None \/ v = ""

\* the table of the composite state, first match wins
StateTable(u) ==
    IF Unset(u.LoadState) THEN None
    ELSE IF u.LoadState # "loaded" THEN u.LoadState
    ELSE IF Unset(u.FreezerState) THEN None
    ELSE IF u.FreezerState # "running" THEN u.FreezerState
    ELSE IF Unset(u.ActiveState) THEN None
    ELSE IF u.ActiveState \in {"inactive", "failed"} THEN u.ActiveState
    ELSE IF Unset(u.SubState) THEN None
    ELSE IF u.SubState = "exited" THEN "finished"
    ELSE u.SubState

----------------------------------------------------------------------------
(* Claims about the population of a Stack, checked under SpecPs *)

\* the end-to-end scenario: config, then the two refreshes in either order,
\* then the table
C7_Case ==
    /\ last.op = "table"
    /\ cfg = CfgWeb
    /\ Len(hist) = 3
    /\ hist[1].op = "load_config"
    /\ \E a, b \in 2..3 :
        /\ a # b
        /\ hist[a].op = "load_systemd"
        /\ hist[a].input.units = <<NginxRunning>>
        /\ hist[b].op = "load_dockerd"
        /\ hist[b].input = <<ListedA>>
C7_LiveRow(row, live) ==
    /\ row.WANTED = PyTrue
    /\ row.PID = live.pid
    /\ row.STATE = live.state /\ row.STATE = "running"
    /\ row.STARTED = live.started /\ Truthy(row.STARTED)
    /\ row.CHANGED = live.changed /\ Truthy(row.CHANGED)

\* C7: a Stack seeded from a config declaring unit nginx and project web
\* with service app, refreshed from a systemd that reports nginx running and
\* from a docker that lists one running container of web/app, has a table of
\* exactly two rows, both wanted, carrying the live state and timestamps; in
\* either order of the two refreshes.
C7_EndToEnd ==
    C7_Case =>
        /\ Len(last.ret) = 2
        /\ C7_LiveRow(last.ret[1], Shown[NginxRunning].svc)
        /\ C7_LiveRow(last.ret[2], Inspected[ListedA].svc)
C7_Witness ==
    /\ C7_Case
    /\ hist[2].op = "load_systemd"
    /\ Len(last.ret) = 2
    /\ last.ret[1].STARTED = "2024-01-01 10:00:00"
    /\ last.ret[2].CHANGED = "2024-01-02 00:00:00"

\* C8: in load_dockerd and load_systemd a failure on one entry skips that
\* entry only: no exception reaches the caller and every well-formed entry
\* of the enumeration is in the Stack afterwards.
C8_FailureSkipsEntry ==
    /\ last.op = "load_dockerd" =>
          /\ last.exc = None
          /\ \A i \in 1..Len(last.input) :
                Inspected[last.input[i]].exc = None =>
                    \E j \in 1..Len(services) :
                        Entry(j).pid = Inspected[last.input[i]].svc.pid
    /\ last.op = "load_systemd" => last.exc = None

\* the names load_systemd enumerated that survive the filter
C9_Surviving ==
    {u \in {last.input.units[i] : i \in 1..Len(last.input.units)} :
        last.input.filter.kind = "Config" =>
            \E k \in 1..Len(GetSystemdUnits(last.input.filter.ids)) :
                GetSystemdUnits(last.input.filter.ids)[k] \o ".service" = u.Id}

\* C9: after load_systemd returns, the Stack holds, for every enumerated
\* unit that survived the filter, a Service populated from that unit,
\* whatever ExecMainPID the units report.
C9_OnePerSurvivingUnit ==
    (last.op = "load_systemd" /\ last.exc = None) =>
        \A u \in C9_Surviving :
            \E j \in 1..Len(services) :
                /\ Entry(j).type = "systemd"
                /\ Entry(j).name \o ".service" = u.Id
                /\ Entry(j).pid = u.ExecMainPID

\* C10: after load_dockerd returns over containers of distinct Ids, the
\* Stack holds for each of them exactly one entry with that Id as pid, and
\* that entry's slots other than wanted are the inspected ones, whatever the
\* Stack held before.
C10_OneEntryPerContainer ==
    (last.op = "load_dockerd" /\ last.exc = None) =>
        \A i \in 1..Len(last.input) :
            LET live == Inspected[last.input[i]].svc
                at == {j \in 1..Len(services) : Entry(j).pid = live.pid}
            IN  /\ Cardinality(at) = 1
                /\ \A j \in at : [Entry(j) EXCEPT !.wanted = live.wanted] = live

\* C11: a Service that load_systemd merges carries wanted True when a
\* filter was applied and the boolean False when none was; after an
\* unfiltered load_systemd into an empty Stack every entry's wanted is False.
C11_WantedIsFilterApplied ==
    (last.op = "load_systemd" /\ last.exc = None /\ Len(last.services) = 0) =>
        \A i \in 1..Len(services) :
            Entry(i).wanted = IF last.input.filter.kind = "Config"
                              THEN PyTrue ELSE PyFalse

\* what a config declares: <<type, stack, name>> of every systemd unit and
\* of every service of a compose project that is not ignored
C12_Declared ==
    {<<"systemd", "systemd", StripServiceSuffix(cfg.systemd[k])>> :
        k \in 1..Len(cfg.systemd)}
    \cup
    UNION {{<<"compose", cfg.compose[p].name, cfg.compose[p].file.services[k].name>> :
               k \in 1..Len(cfg.compose[p].file.services)} :
           p \in {q \in 1..Len(cfg.compose) : ~cfg.compose[q].ignored}}
C12_Case == last.op = "load_config" /\ Len(last.services) = 0

\* C12: load_config on an empty Stack leaves exactly one placeholder per
\* declared systemd unit and per service of each compose project that is not
\* ignored: wanted True, the declared type, stack and name, no pid, no state;
\* an ignored project contributes nothing.
C12_SeedFromConfig ==
    C12_Case =>
        /\ last.exc = None
        /\ Len(services) = Cardinality(C12_Declared)
        /\ {<<Entry(i).type, Entry(i).stack, Entry(i).name>> : i \in 1..Len(services)}
              = C12_Declared
        /\ \A i \in 1..Len(services) :
              /\ Entry(i).wanted = PyTrue
              /\ Entry(i).pid = None
              /\ Entry(i).state = None
\* the config that declares two units and an ignored project
C12_Witness ==
    /\ C12_Case
    /\ cfg = CfgUnits
    /\ Len(services) = 2
    /\ Entry(1).name = "nginx" /\ Entry(2).name = "cron"
    /\ \A i \in 1..Len(services) : Entry(i).type # "compose"

----------------------------------------------------------------------------
(* Claims about the command line and the failures of a run *)

\* the calls of the invocation so far, by name
Called(name) == \E i \in 1..Len(hist) : hist[i].op = name

\* C13: when the stack-definition file does not exist, constructing Config
\* raises ValueError, and the invocation has run no command function and
\* invoked no backend: nothing follows the failed Config in the invocation.
C13_Case == ~args.exists /\ last.op # "parse_args"
C13_MissingConfigIsFatal ==
    C13_Case =>
        /\ last.op = "Config" /\ last.exc = "ValueError"
        /\ hist = <<Call("main", args), Call("Config", last.input)>>
        /\ heap = <<>> /\ services = <<>>
        /\ ~ENABLED NextCli
C13_Witness ==
    /\ C13_Case
    /\ args.config_path = None /\ args.env = None
    /\ last.input = COMPOSE_STACK_CONFIG

\* C14: when the compose file of a project that is not ignored cannot be
\* found, load_config raises to its caller and the invocation produces no
\* table.
C14_MissingComposeIsFatal ==
    cfg = CfgLost =>
        /\ last.op = "load_config" => last.exc # None
        /\ ~Called("table")

\* C15: when a backend executable cannot be invoked and prints nothing, the
\* refresh from that backend raises nothing and leaves the Stack as it was,
\* for docker and for systemctl, with and without a filter.
C15_Case ==
    \/ last.op = "load_dockerd" /\ Len(last.input) = 0
    \/ last.op = "load_systemd" /\ Len(last.input.units) = 0
C15_DeadBackendAddsNothing ==
    C15_Case => last.exc = None /\ services = last.services

----------------------------------------------------------------------------
(* Claims about docker_inspect, checked under SpecInspect *)

Inspected1 == heap[1]
InspectDone == last.op = "docker_inspect"
\* a timestamp of the JSON object that the format of newer() cannot parse
Unparsable(t) == t = Absent \/ t = None

\* C16: a timestamp that fails to parse is treated as absent on that field
\* only and never fails the record: docker_inspect raises nothing, whatever
\* Created, StartedAt and FinishedAt read, and leaves the field of an
\* unparsable timestamp unset.
C16_BadTimestampKeepsRecord ==
    InspectDone =>
        /\ last.exc = None
        /\ Unparsable(last.input.created) => Unset(Inspected1.created)
        /\ Unparsable(last.input.started) => Unset(Inspected1.started)
        /\ Unparsable(last.input.finished) => Unset(Inspected1.finished)

\* C17: changed is the latest of created, started and finished and is one
\* of the three; with created 2024-01-01 00:00:00, started 2024-01-02
\* 00:00:00 and finished 0000-00-00 00:00:00 (no FinishedAt in the object)
\* changed is started.
C17_Latest(x) ==
    /\ x.changed \in {x.created, x.started, x.finished}
    /\ \A t \in {x.created, x.started, x.finished} :
          ~TupleGreater(Strptime(t), Strptime(x.changed))
C17_ChangedIsLatest ==
    InspectDone =>
        /\ last.exc = None => C17_Latest(Inspected1)
        /\ (/\ last.input.created = "2024-01-01T00:00:00.123456789Z"
            /\ last.input.started = "2024-01-02T00:00:00.5Z"
            /\ last.input.finished = Absent)
           => /\ last.exc = None
              /\ Inspected1.created = "2024-01-01 00:00:00"
              /\ Inspected1.finished = NoTime
              /\ Inspected1.changed = "2024-01-02 00:00:00"

\* C18: netmap holds one entry per container port of NetworkSettings.Ports,
\* in order, "<hostport>(<containerport>)" for a bound port and
\* "(<containerport>)" for an unbound one; netport holds the host ports of
\* the bound container ports, in the same order.
C18_HostPort(item) ==
    IF item[2] = None \/ item[2] = <<>> THEN "" ELSE item[2][1].HostPort
C18_Bound(ports) == {i \in 1..Len(ports) : C18_HostPort(ports[i]) # ""}
C18_Case == InspectDone /\ last.exc = None
C18_PortMapping ==
    C18_Case =>
        LET ports == last.input.ports
            netport == Inspected1.netport.v
            netmap == Inspected1.netmap.v
        IN  /\ Inspected1.netport.py = "list" /\ Inspected1.netmap.py = "list"
            /\ Len(netmap) = Len(ports)
            /\ \A i \in 1..Len(ports) :
                  netmap[i] = C18_HostPort(ports[i]) \o "(" \o ports[i][1] \o ")"
            /\ Len(netport) = Cardinality(C18_Bound(ports))
            /\ \A i \in C18_Bound(ports) :
                  netport[Cardinality({j \in C18_Bound(ports) : j <= i})]
                      = C18_HostPort(ports[i])
C18_Witness ==
    /\ C18_Case
    /\ Len(last.input.ports) = 2
    /\ last.input.ports[1][1] = "80/tcp" /\ last.input.ports[2][1] = "443/tcp"
    /\ Inspected1.netport.v = <<"8080">>
    /\ Inspected1.netmap.v = <<"8080(80/tcp)", "(443/tcp)">>

\* C19: mounts is "<v>V <b>B" for v volume and b bind mounts, a zero count
\* left out ("<v>V" alone, "<b>B" alone), and unset when both are zero;
\* mounts of other types are not counted.
C19_Count(t) ==
    Cardinality({i \in 1..Len(last.input.mounts) : last.input.mounts[i].Type = t})
C19_Expected(v, b) ==
    IF v = 0 /\ b = 0 THEN None
    ELSE IF b = 0 THEN ToString(v) \o "V"
    ELSE IF v = 0 THEN ToString(b) \o "B"
    ELSE ToString(v) \o "V " \o ToString(b) \o "B"
C19_MountsFormat ==
    (InspectDone /\ last.exc = None) =>
        Inspected1.mounts = C19_Expected(C19_Count("volume"), C19_Count("bind"))

----------------------------------------------------------------------------
(* Claims about Stack.table, checked under SpecPs *)

\* the key of the row that each field of a Service is listed under
C20_Key ==
    [wanted |-> "WANTED", type |-> "TYPE", stack |-> "STACK", name |-> "NAME",
     pid |-> "PID", pid6 |-> "PID6", state |-> "STATE", created |-> "CREATED",
     started |-> "STARTED", finished |-> "FINISHED", changed |-> "CHANGED",
     mem |-> "MEM", cpu |-> "CPU", blockio |-> "BLOCKIO", netio |-> "NETIO",
     netport |-> "NETPORT", netmap |-> "NETMAP", netmode |-> "NETMODE",
     mounts |-> "MOUNTS", image |-> "IMAGE", imageid |-> "IMAGEID",
     imageid6 |-> "IMAGEID6", imagever |-> "IMAGEVER", imagedate |-> "IMAGEDATE"]

\* C20: table() returns one row per Service of the Stack, in the Stack's
\* order; each row maps the upper-cased name of every field to the
\* Service's value; the call leaves the Stack and its Services as they were.
C20_Case == last.op = "table"
C20_RowsMirrorStack ==
    C20_Case =>
        /\ DOMAIN C20_Key = Fields
        /\ DOMAIN last.ret = 1..Len(services)
        /\ \A i \in 1..Len(services) :
              /\ DOMAIN last.ret[i] = {C20_Key[f] : f \in Fields}
              /\ \A f \in Fields : last.ret[i][C20_Key[f]] = Entry(i)[f]
        /\ heap = last.heap /\ services = last.services
C20_Witness ==
    /\ C20_Case
    /\ Len(services) = 2
    /\ last.ret[1]["NAME"] = "nginx" /\ last.ret[1]["STATE"] = "running"
    /\ last.ret[2]["NAME"] = "app" /\ last.ret[2]["NETPORT"] = PyList(<<"8080">>)
    /\ last.ret[2]["IMAGEVER"] = ""

----------------------------------------------------------------------------
(* Claims about the identification slots of the parsers *)

\* C21: no Service has stack "compose": a record of the docker parser has
\* type compose exactly when the label com.docker.compose.project is present
\* and not empty, and then its stack is that project name; otherwise its
\* type and stack are both "dockerd"; for every project name.
C21_HasProject == last.input.project # Absent /\ last.input.project # ""
C21_StackIsNeverCompose ==
    (InspectDone /\ last.exc = None) =>
        /\ Inspected1.stack # "compose"
        /\ Inspected1.type = "compose" <=> C21_HasProject
        /\ C21_HasProject => Inspected1.stack = last.input.project
        /\ ~C21_HasProject => Inspected1.type = "dockerd" /\ Inspected1.stack = "dockerd"

----------------------------------------------------------------------------
(* Claims about io.read_yaml, checked under SpecCli *)

\* C22: read_yaml never raises on a missing file or on invalid YAML: it
\* returns the empty mapping and logs an error ("missing YAML file" /
\* "failed importing"); and for every path it returns a dictionary.
C22_Read(p) == ReadYaml(cfg.compose[p].file)
C22_ReadYamlReturnsDict ==
    (last.op = "load_config") =>
        \A p \in {q \in 1..Len(cfg.compose) : ~cfg.compose[q].ignored} :
            /\ cfg.compose[p].file.kind = "missing" =>
                  C22_Read(p) = [ret |-> YamlDict(<<>>), log |-> "missing YAML file"]
            /\ cfg.compose[p].file.kind = "invalid" =>
                  C22_Read(p) = [ret |-> YamlDict(<<>>), log |-> "failed importing"]
            /\ C22_Read(p).ret.py = "dict"

----------------------------------------------------------------------------
(* Claims about the accounting slots of the systemd parser, under SpecShow *)

ShowDone == last.op = "systemctl_show" /\ last.exc = None

\* C23: whenever MemoryCurrent is a valid byte count, mem is that count in
\* gigabytes, rounded to one decimal and formatted "<N>G": 2147483648 bytes
\* give "2.0G", 1610612736 bytes give "1.5G".
C23_MemoryInGigabytes ==
    ShowDone =>
        /\ last.input.MemoryCurrent = "2147483648" => Inspected1.mem = "2.0G"
        /\ last.input.MemoryCurrent = "1610612736" => Inspected1.mem = "1.5G"

\* C24: for a valid CPUUsageNSec n, cpu is the space-joined segments "<H>h",
\* "<M>m", "<S.s>s" of the time n (rounded to a tenth of a second), M < 60
\* and S < 60, a segment being present exactly when its value is not zero,
\* and the seconds segment also when hours and minutes are both zero; a
\* missing or non-numeric value leaves cpu unset.
C24_Tenths(n) ==
    LET whole == IF Len(n) > 9 THEN StrToInt(SubSeq(n, 1, Len(n) - 9)) ELSE 0
        nanos == StrToInt(IF Len(n) > 9 THEN StrFrom(n, Len(n) - 9) ELSE n)
    IN  whole * 10 + (nanos + 50000000) \div 100000000
C24_Join(segs) ==
    IF Len(segs) = 1 THEN segs[1]
    ELSE IF Len(segs) = 2 THEN segs[1] \o " " \o segs[2]
    ELSE segs[1] \o " " \o segs[2] \o " " \o segs[3]
C24_Expected(n) ==
    LET t == C24_Tenths(n)
        H == t \div 36000
        M == (t % 36000) \div 600
        S == t % 600
    IN  C24_Join((IF H > 0 THEN <<ToString(H) \o "h">> ELSE <<>>)
                 \o (IF M > 0 THEN <<ToString(M) \o "m">> ELSE <<>>)
                 \o (IF S > 0 \/ (H = 0 /\ M = 0)
                     THEN <<ToString(S \div 10) \o "." \o ToString(S % 10) \o "s">>
                     ELSE <<>>))
C24_CpuSegments ==
    ShowDone =>
        IF last.input.CPUUsageNSec # None /\ IsDigits(last.input.CPUUsageNSec)
        THEN Inspected1.cpu = C24_Expected(last.input.CPUUsageNSec)
        ELSE Unset(Inspected1.cpu)

----------------------------------------------------------------------------
(* Claims about the placeholders of load_config, checked under SpecCli *)

\* C25: the placeholder of a compose service has netport and netmap as the
\* split rule of the docker parser gives them for the same bindings, a
\* leading "0.0.0.0:" stripped from each: netport a sequence with one host
\* port per host-bound entry, netmap a sequence with "<hostport>(<port>)"
\* per host-bound entry and "(<port>)" per entry without a host port.
C25_Binding(b) ==
    Split1(IF StartsWith(b, "0.0.0.0:") THEN StrFrom(b, 8) ELSE b, ":")
RECURSIVE C25_Ports(_)
C25_Ports(bs) ==
    IF Len(bs) = 0 THEN <<>>
    ELSE (IF Len(C25_Binding(Head(bs))) = 2 THEN <<C25_Binding(Head(bs))[1]>> ELSE <<>>)
         \o C25_Ports(Tail(bs))
RECURSIVE C25_Map(_)
C25_Map(bs) ==
    IF Len(bs) = 0 THEN <<>>
    ELSE <<IF Len(C25_Binding(Head(bs))) = 2
           THEN C25_Binding(Head(bs))[1] \o "(" \o C25_Binding(Head(bs))[2] \o ")"
           ELSE "(" \o C25_Binding(Head(bs))[1] \o ")">>
         \o C25_Map(Tail(bs))
C25_ComposePortsAsDocker ==
    (last.op = "load_config" /\ last.exc = None /\ ~cfg.compose[1].ignored) =>
        \A i \in 1..Len(services), k \in 1..Len(cfg.compose[1].file.services) :
            (Entry(i).type = "compose"
             /\ Entry(i).name = cfg.compose[1].file.services[k].name)
            => /\ Entry(i).netport.py = "list" /\ Entry(i).netmap.py = "list"
               /\ Entry(i).netport.v = C25_Ports(cfg.compose[1].file.services[k].ports)
               /\ Entry(i).netmap.v = C25_Map(cfg.compose[1].file.services[k].ports)

----------------------------------------------------------------------------
(* Claims about pid6, checked under SpecShow *)

\* C26: whenever a parser sets pid it sets pid6 too, to the first 6
\* characters of pid.
C26_ShortPid ==
    (last.op \in {"systemctl_show", "docker_inspect"} /\ last.exc = None
     /\ ~Unset(Inspected1.pid))
        => Inspected1.pid6 = StrTake(Inspected1.pid, 6)

----------------------------------------------------------------------------
(* Claims about the merge of live records, checked under SpecCli *)

\* C27: after load_config, load_dockerd and load_systemd filtered to the
\* declared units, every declared systemd unit still has an entry with
\* stack "systemd", its name and wanted True, whatever ExecMainPID the live
\* units report.
C27_DeclaredUnitsKeepTheirRow ==
    (last.op = "load_systemd" /\ last.exc = None) =>
        \A k \in 1..Len(cfg.systemd) :
            \E i \in 1..Len(services) :
                /\ Entry(i).stack = "systemd"
                /\ Entry(i).name = StripServiceSuffix(cfg.systemd[k])
                /\ Entry(i).wanted = PyTrue

----------------------------------------------------------------------------
(* Claims about the Stack across Stack.add calls, checked under Spec *)

\* C28: across Stack.add calls the wanted flag is only promoted: an entry
\* position whose Service has wanted True holds a Service with wanted True
\* in every later state, and the Stack never gets shorter.
C28_Step ==
    /\ Len(services') >= Len(services)
    /\ \A i \in 1..Len(services) :
          heap[services[i]].wanted = PyTrue => heap'[services'[i]].wanted = PyTrue
C28_WantedOnlyPromoted == [][C28_Step]_vars
\* an add has promoted the entry it found, and an add with replace has put
\* an unwanted item over a wanted entry
C28_Witness ==
    /\ LastAddOfService /\ last.replace
    /\ \E i \in 1..Len(last.services) :
          /\ last.heap[last.services[i]].wanted = PyTrue
          /\ services[i] = last.item.ref /\ services[i] # last.services[i]
          /\ last.heap[last.item.ref].wanted = PyFalse
          /\ Entry(i).wanted = PyTrue

\* C29: Stack.add changes at most one position.  When item equals an entry
\* the length is unchanged, only the first position whose entry equals item
\* changes and every other position keeps its record; when item equals no
\* entry it is appended and the earlier positions are unchanged; when item
\* is not a Service add returns False and the Stack is unchanged.
C29_Kept(j) == services[j] = last.services[j] /\ Entry(j) = last.heap[last.services[j]]
C29_AddChangesOnePosition ==
    (last.op = "add") =>
        IF last.item.cls # "Service"
        THEN last.ret = PyFalse /\ services = last.services /\ heap = last.heap
        ELSE IF StackContains(last.heap, last.services, last.item.ref)
        THEN /\ Len(services) = Len(last.services)
             /\ \A j \in 1..Len(services) :
                   j # FirstEq(last.heap, last.services, last.item.ref) => C29_Kept(j)
        ELSE /\ services = Append(last.services, last.item.ref)
             /\ \A j \in 1..Len(last.services) : C29_Kept(j)

----------------------------------------------------------------------------
(* Claims about Process.run_live, checked under FairLive *)

\* C30: for a subprocess that writes finitely many lines to stdout and
\* finitely many bytes to stderr and then exits, run_live returns; while it
\* runs, every redraw shows a window of exactly n_lines lines that holds the
\* last n_lines lines read so far.
C30_WindowOfNLines(r) ==
    /\ Len(r.window) = r.n_lines
    /\ \A j \in 1..Min(r.n_lines, Len(r.out_lines)) :
          r.window[r.n_lines + 1 - j] = r.out_lines[Len(r.out_lines) + 1 - j]
C30_Redraw ==
    (run_live.pc = "draw" /\ run_live'.pc # "draw"
        /\ run_live.previous_out_line # run_live.out_line)
        => C30_WindowOfNLines(run_live')
C30_LiveTailTerminates ==
    /\ <>(run_live.pc = "returned")
    /\ [][C30_Redraw]_vars

====
